---------------------------- MODULE Spec2Model ----------------------------
(***************************************************************************)
(* Model of the Google-Translate-CLI command (src/index.ts): the commander *)
(* program `Translate` with its root action `run`, the sub-commands `to`,  *)
(* `file` and `web`, the option parser `verifyString`, and the json / txt  *)
(* pipelines of `translateFile`.                                           *)
(*                                                                         *)
(* A JavaScript string is modelled as a sequence of one-character strings, *)
(* so that split, join, JSON.stringify and JSON.parse are computed and not *)
(* assumed.  A JavaScript value is a record [type, v].                     *)
(***************************************************************************)
EXTENDS Integers, Sequences, FiniteSets, TLC

(***************************************************************************)
(* Bounds of the model.                                                    *)
(***************************************************************************)
\* number of "//"-separated tokens in a crafted backend answer
MaxTokens == 2

(***************************************************************************)
(* JavaScript values.                                                      *)
(***************************************************************************)
Undefined == [type |-> "undefined", v |-> <<>>]
Str(s)    == [type |-> "string", v |-> s]
Arr(a)    == [type |-> "array", v |-> a]
Obj(e)    == [type |-> "object", v |-> e]
Num(n)    == [type |-> "number", v |-> n]
Null      == [type |-> "null", v |-> <<>>]

Digits == <<"0", "1", "2", "3", "4", "5", "6", "7", "8", "9">>
DigitChars == {Digits[i] : i \in 1..10}
DigitVal(c) == (CHOOSE i \in 1..10 : Digits[i] = c) - 1

(***************************************************************************)
(* String.prototype helpers on character sequences.                        *)
(***************************************************************************)
\* does sep occur in s at position i (1-based)
OccursAt(s, sep, i) ==
    /\ i >= 1
    /\ i + Len(sep) - 1 <= Len(s)
    /\ \A j \in 1..Len(sep) : s[i + j - 1] = sep[j]

\* String.prototype.indexOf(sep, from), 1-based, 0 when absent
IndexOf(s, sep, from) ==
    LET hits == {i \in from..Len(s) : OccursAt(s, sep, i)}
    IN  IF hits = {} THEN 0 ELSE CHOOSE i \in hits : \A j \in hits : i <= j

\* String.prototype.includes
Includes(s, sep) == IndexOf(s, sep, 1) # 0

\* String.prototype.startsWith
StartsWith(s, sep) == OccursAt(s, sep, 1)

\* String.prototype.split(sep) for a non-empty separator: every occurrence
\* of sep cuts, and a string without sep yields the one-element array [s]
RECURSIVE Split(_, _)
Split(s, sep) ==
    LET i == IndexOf(s, sep, 1)
    IN  IF i = 0
        THEN <<s>>
        ELSE <<SubSeq(s, 1, i - 1)>> \o Split(SubSeq(s, i + Len(sep), Len(s)), sep)

\* Array.prototype.join(sep) on an array of strings
RECURSIVE Join(_, _)
Join(a, sep) ==
    IF a = <<>> THEN <<>>
    ELSE IF Len(a) = 1 THEN a[1]
    ELSE a[1] \o sep \o Join(Tail(a), sep)

\* Array.prototype.at(-1) / Array.prototype.pop() result: the last element
Last(a) == a[Len(a)]

\* decimal digits of a natural number: `${index}` of a template literal
RECURSIVE NatToStr(_)
NatToStr(n) ==
    IF n < 10 THEN <<Digits[n + 1]>>
    ELSE NatToStr(n \div 10) \o <<Digits[(n % 10) + 1]>>

RECURSIVE StrToNat(_)
StrToNat(s) ==
    IF s = <<>> THEN 0
    ELSE 10 * StrToNat(SubSeq(s, 1, Len(s) - 1)) + DigitVal(s[Len(s)])

(***************************************************************************)
(* JSON.stringify of a string or of an array of strings.  The characters   *)
(* of the model's alphabet that JSON escapes are the double quote and the  *)
(* backslash; "/" and "=" are written as they are.                         *)
(***************************************************************************)
RECURSIVE QuoteChars(_)
QuoteChars(s) ==
    IF s = <<>> THEN <<>>
    ELSE (IF s[1] \in {"\"", "\\"} THEN <<"\\", s[1]>> ELSE <<s[1]>>)
         \o QuoteChars(Tail(s))

RECURSIVE JSONStringifyItems(_)
RECURSIVE JSONStringify(_)
JSONStringifyItems(a) ==
    IF a = <<>> THEN <<>>
    ELSE JSONStringify(a[1])
         \o (IF Len(a) > 1 THEN <<",">> ELSE <<>>)
         \o JSONStringifyItems(Tail(a))

JSONStringify(val) ==
    CASE val.type = "string" -> <<"\"">> \o QuoteChars(val.v) \o <<"\"">>
      [] val.type = "array"  -> <<"[">> \o JSONStringifyItems(val.v) \o <<"]">>
      [] val.type = "number" -> NatToStr(val.v)
      [] OTHER               -> <<"n", "u", "l", "l">>

(***************************************************************************)
(* JSON.parse.  A parse result is [ok, val, pos]: pos is the position      *)
(* after the value.  The grammar covers what the model's alphabet can      *)
(* spell: string literals with the escapes \" \\ \/, arrays, non-negative  *)
(* and negative integers, and blanks around values.  Anything else is a    *)
(* SyntaxError (ok = FALSE).                                               *)
(***************************************************************************)
ParseFail == [ok |-> FALSE, val |-> Undefined, pos |-> 0]

RECURSIVE SkipBlanks(_, _)
SkipBlanks(s, i) ==
    IF i <= Len(s) /\ s[i] = " " THEN SkipBlanks(s, i + 1) ELSE i

\* the characters of a string literal whose opening quote is before i
RECURSIVE ParseChars(_, _, _)
ParseChars(s, i, acc) ==
    IF i > Len(s) THEN ParseFail
    ELSE IF s[i] = "\"" THEN [ok |-> TRUE, val |-> Str(acc), pos |-> i + 1]
    ELSE IF s[i] = "\\"
         THEN IF i + 1 <= Len(s) /\ s[i + 1] \in {"\"", "\\", "/"}
              THEN ParseChars(s, i + 2, Append(acc, s[i + 1]))
              ELSE ParseFail
    ELSE ParseChars(s, i + 1, Append(acc, s[i]))

\* end of the run of digits that starts at i
RECURSIVE DigitsEnd(_, _)
DigitsEnd(s, i) ==
    IF i <= Len(s) /\ s[i] \in DigitChars THEN DigitsEnd(s, i + 1) ELSE i

ParseNumber(s, i) ==
    LET neg == i <= Len(s) /\ s[i] = "-"
        b   == IF neg THEN i + 1 ELSE i
        e   == DigitsEnd(s, b)
    IN  IF e = b THEN ParseFail
        ELSE IF s[b] = "0" /\ e > b + 1 THEN ParseFail
        ELSE [ok  |-> TRUE,
              val |-> Num((IF neg THEN -1 ELSE 1) * StrToNat(SubSeq(s, b, e - 1))),
              pos |-> e]

RECURSIVE ParseValue(_, _)
RECURSIVE ParseItems(_, _, _)
ParseValue(s, i0) ==
    LET i == SkipBlanks(s, i0)
    IN  IF i > Len(s) THEN ParseFail
        ELSE IF s[i] = "\"" THEN ParseChars(s, i + 1, <<>>)
        ELSE IF s[i] = "["
             THEN LET j == SkipBlanks(s, i + 1)
                  IN  IF j <= Len(s) /\ s[j] = "]"
                      THEN [ok |-> TRUE, val |-> Arr(<<>>), pos |-> j + 1]
                      ELSE ParseItems(s, i + 1, <<>>)
        ELSE IF s[i] = "-" \/ s[i] \in DigitChars THEN ParseNumber(s, i)
        ELSE ParseFail

\* the items of an array, one value then "," or "]"
ParseItems(s, i, acc) ==
    LET r == ParseValue(s, i)
    IN  IF ~r.ok THEN ParseFail
        ELSE LET j == SkipBlanks(s, r.pos)
             IN  IF j > Len(s) THEN ParseFail
                 ELSE IF s[j] = "]"
                      THEN [ok |-> TRUE, val |-> Arr(Append(acc, r.val)), pos |-> j + 1]
                 ELSE IF s[j] = ","
                      THEN ParseItems(s, j + 1, Append(acc, r.val))
                 ELSE ParseFail

\* JSON.parse(text): text is a JavaScript value; undefined is coerced to the
\* string "undefined", which is no JSON text
JSONParse(text) ==
    IF text.type # "string" THEN ParseFail
    ELSE LET r == ParseValue(text.v, 1)
         IN  IF r.ok /\ SkipBlanks(text.v, r.pos) > Len(text.v) THEN r ELSE ParseFail


(***************************************************************************)
(* The store `this.db`: the language catalog (two parallel lists, read by  *)
(* languages() and verifyString()) and the key defaultLanguage.  The       *)
(* catalog is data of the store; two entries stand for it.                 *)
(***************************************************************************)
longName  == << <<"E", "n", "g", "l", "i", "s", "h">>, <<"F", "r", "e", "n", "c", "h">> >>
shortName == << <<"e", "n">>, <<"f", "r">> >>

\* Array.prototype.includes on an array of strings
ArrayIncludes(a, s) == \E i \in 1..Len(a) : a[i] = s

\* the literal of `?? 'en'`
FallbackLanguage == <<"e", "n">>

\* Translate.languages(): one display line per catalog entry,
\* `  ${language} (${shortNames[index]})`
languages ==
    [i \in 1..Len(longName) |->
        <<" ", " ">> \o longName[i] \o <<" ", "(">> \o shortName[i] \o <<")">>]

\* Translate.verifyString(value): TRUE when it returns value, FALSE when it
\* throws InvalidArgumentError
verifyStringAcceptsAll(value) == value.type = "string"

verifyString(value) ==
    /\ value.type = "string"
    /\ \/ ArrayIncludes(longName, value.v)
       \/ ArrayIncludes(shortName, value.v)

\* a ?? b
Coalesce(a, b) == IF a.type \in {"undefined", "null"} THEN b ELSE a

(***************************************************************************)
(* translateFile: the path prompt's excludeFilter, the switch on the       *)
(* extension and the name of the output file.                              *)
(***************************************************************************)
fileTypes == { <<".", "j", "s", "o", "n">>, <<".", "t", "x", "t">> }

\* the characters of the model's paths in the range [A-z] of the regular
\* expression /^\.[A-z]/
AzRange == {"a", "d", "j", "s", "o", "n", "t", "x", "m", "e", "u", "l", "_"}

\* /\.([^./]+)$/.exec(nodePath): the match [0] (dot and extension), or
\* Undefined when the path does not end so
FileTypeOf(nodePath) ==
    LET dots == {i \in 1..Len(nodePath) : nodePath[i] = "."}
    IN  IF dots = {} THEN Undefined
        ELSE LET d == CHOOSE i \in dots : \A j \in dots : j <= i
                 ext == SubSeq(nodePath, d + 1, Len(nodePath))
             IN  IF ext # <<>> /\ \A k \in 1..Len(ext) : ext[k] # "/"
                 THEN Str(SubSeq(nodePath, d, Len(nodePath)))
                 ELSE Undefined

excludeFilter(nodePath) ==
    LET pathSplit == Split(nodePath, <<"/">>)
        fileType  == FileTypeOf(nodePath)
    IN  IF StartsWith(nodePath, <<".">>) THEN TRUE
        ELSE IF \E i \in 1..Len(pathSplit) :
                    /\ Len(pathSplit[i]) >= 2
                    /\ pathSplit[i][1] = "."
                    /\ pathSplit[i][2] \in AzRange
             THEN TRUE
        ELSE IF Includes(nodePath, <<"n", "o", "d", "e", "_", "m", "o", "d", "u", "l", "e", "s">>)
             THEN TRUE
        ELSE IF fileType.type = "string" /\ fileType.v \in fileTypes THEN FALSE
        ELSE TRUE

\* (path.split('/').at(-1))?.split('.').pop()
ExtensionOf(path) == Last(Split(Last(Split(path, <<"/">>)), <<".">>))

\* (path.split('/').at(-1))?.split('.')[0] + '-translated' + ext
TranslatedSuffix == <<"-", "t", "r", "a", "n", "s", "l", "a", "t", "e", "d", ".">>

pathTranslated(path, ext) ==
    Split(Last(Split(path, <<"/">>)), <<".">>)[1] \o TranslatedSuffix \o ext

(***************************************************************************)
(* resolveMessages / resolvePaths: the leaf records of a parsed document.  *)
(* An object is Obj(entries), entries the sequence of <<key, value>> in    *)
(* the order of Object.entries.  currentPath is Undefined at the root.     *)
(***************************************************************************)
Truthy(val) ==
    CASE val.type \in {"undefined", "null"} -> FALSE
      [] val.type = "string" -> val.v # <<>>
      [] val.type = "number" -> val.v # 0
      [] OTHER -> TRUE

\* currentPath ? currentPath + '/' + key : key
ChildPath(currentPath, key) ==
    IF Truthy(currentPath) THEN currentPath.v \o <<"/">> \o key ELSE key

\* isObject(content)
isObject(content) == content.type = "object"

RECURSIVE resolvePaths(_, _)
RECURSIVE resolveEntries(_, _)
\* the loop over Object.entries(obj), from the first entry on
resolveEntries(entries, currentPath) ==
    IF entries = <<>> THEN <<>>
    ELSE LET key   == entries[1][1]
             value == entries[1][2]
             here  ==
                IF value.type \in {"string", "array"}
                THEN IF value.v = <<>> THEN <<>>
                     ELSE << [path |-> ChildPath(currentPath, key), text |-> value] >>
                ELSE IF isObject(value) /\ value.v # <<>>
                     THEN resolvePaths(value, Str(ChildPath(currentPath, key)))
                     ELSE <<>>
         IN  here \o resolveEntries(Tail(entries), currentPath)

resolvePaths(obj, currentPath) == resolveEntries(obj.v, currentPath)

resolveMessages(data) == resolvePaths(data, Undefined)

(***************************************************************************)
(* The batch: messages.map(...).join('//') and                             *)
(* text.split('//').map(message => message.split('==')).                   *)
(***************************************************************************)
BatchSep == <<"/", "/">>
IndexSep == <<"=", "=">>

EncodeBatch(messages) ==
    Join([i \in 1..Len(messages) |->
             NatToStr(i - 1) \o IndexSep \o JSONStringify(messages[i].text)],
         BatchSep)

DecodeBatch(text) ==
    LET tokens == Split(text, BatchSep)
    IN  [i \in 1..Len(tokens) |-> Split(tokens[i], IndexSep)]

\* let [index, value] of newMessages: the first two parts, Undefined when
\* the part is missing
PartAt(parts, i) == IF i <= Len(parts) THEN Str(parts[i]) ELSE Undefined

\* is the property name a canonical array index ("0", "1", "12", not "01")
IsCanonicalIndex(s) ==
    /\ s # <<>>
    /\ \A i \in 1..Len(s) : s[i] \in DigitChars
    /\ (Len(s) > 1 => s[1] # "0")

\* messages.at(index) of a numeric string: negative indices count from the end
LookupMessageAt(messages, index) ==
    IF index.type = "string" /\ IsCanonicalIndex(index.v)
       /\ StrToNat(index.v) < Len(messages)
    THEN messages[StrToNat(index.v) + 1]
    ELSE IF index.type = "string" /\ Len(index.v) >= 2 /\ index.v[1] = "-"
            /\ IsCanonicalIndex(Tail(index.v))
            /\ StrToNat(Tail(index.v)) >= 1
            /\ StrToNat(Tail(index.v)) <= Len(messages)
         THEN messages[Len(messages) - StrToNat(Tail(index.v)) + 1]
         ELSE Undefined

\* messages[index]: the element, or Undefined when index names no element
LookupMessage(messages, index) ==
    IF index.type = "string" /\ IsCanonicalIndex(index.v)
       /\ StrToNat(index.v) < Len(messages)
    THEN messages[StrToNat(index.v) + 1]
    ELSE Undefined

(***************************************************************************)
(* ObjectManager.set(path, value) of object.mn: the value at the nested    *)
(* location path.split('/'), intermediate objects created as needed.       *)
(***************************************************************************)
KeyIndex(entries, key) ==
    LET hits == {i \in 1..Len(entries) : entries[i][1] = key}
    IN  IF hits = {} THEN 0 ELSE CHOOSE i \in hits : TRUE

RECURSIVE SetAt(_, _, _)
SetAt(obj, segs, value) ==
    LET key == segs[1]
        i   == KeyIndex(obj.v, key)
        old == IF i # 0 /\ obj.v[i][2].type = "object" THEN obj.v[i][2] ELSE Obj(<<>>)
        new == IF Len(segs) = 1 THEN value ELSE SetAt(old, Tail(segs), value)
    IN  IF i = 0 THEN Obj(Append(obj.v, <<key, new>>))
        ELSE Obj([obj.v EXCEPT ![i] = <<key, new>>])

ObjectSet(obj, path, value) == SetAt(obj, Split(path, <<"/">>), value)


(***************************************************************************)
(* Inputs: command lines, selectable paths, file contents, backend answers.*)
(***************************************************************************)
q == "\""

\* values of --to: absent, a short name, a long name, a name not in the catalog
ToValues == {Undefined, Str(shortName[2]), Str(longName[2]), Str(<<"x", "x">>)}

\* the words of [message...]
Messages == { <<>>, << <<"a">> >>, << <<"a">>, <<"x">> >> }

Commands == {"run", "to", "file", "web"}

Argv ==
    [command : Commands, message : Messages, to : ToValues, languages : BOOLEAN]

\* a command line as commander dispatches it: words other than a sub-command
\* name go to the root action, a sub-command takes none
WellFormedArgv(a) == a.command # "run" => (a.message = <<>> /\ ~a.languages)

NoArgv == [command |-> "none", message |-> <<>>, to |-> Undefined, languages |-> FALSE]

\* paths the fuzzy path prompt walks over
CandidatePaths ==
    { <<"a", ".", "j", "s", "o", "n">>,
      <<"d", "/", "a", ".", "x", ".", "j", "s", "o", "n">>,
      <<"d", "/", "a", ".", "t", "x", "t">>,
      <<".", "a", ".", "j", "s", "o", "n">>,
      <<"d", "/", ".", "x", "/", "a", ".", "j", "s", "o", "n">>,
      <<"a", ".", "x">> }

\* parsed contents of a .json file
Docs ==
    { Obj(<< <<<<"a">>, Str(<<"a">>)>> >>),
      Obj(<< <<<<"a">>, Str(<<"a", q, "\\">>)>>,
             <<<<"x">>, Obj(<< <<<<"a">>, Str(<<"x">>)>>,
                              <<<<"x">>, Arr(<<Str(<<"a">>), Str(<<"x">>)>>)>> >>)>> >>),
      Obj(<< <<<<"a">>, Str(<<>>)>>, <<<<"x">>, Arr(<<>>)>>, <<<<"y">>, Str(<<"a">>)>>,
             <<<<"n">>, Num(1)>>, <<<<"z">>, Null>>, <<<<"o">>, Obj(<<>>)>> >>),
      Obj(<< <<<<"a">>, Str(<<"a", "/", "/", "x">>)>> >>),
      Obj(<< <<<<"a">>, Str(<<"a", "=", "=", "x">>)>> >>),
      Obj(<< <<<<>>, Obj(<< <<<<"x">>, Str(<<"a">>)>> >>)>>, <<<<"x">>, Str(<<"x">>)>> >>),
      Obj(<< <<<<"a", "/", "x">>, Str(<<"a">>)>>,
             <<<<"a">>, Obj(<< <<<<"x">>, Str(<<"x">>)>> >>)>> >>) }

\* contents of a .txt file
TxtContents == { <<"a">>, <<"a", " ", "x">> }

\* one token of a crafted backend answer
Tokens ==
    { <<"0", "=", "=", q, "x", q>>,
      <<"1", "=", "=", q, "x", q>>,
      <<"-", "1", "=", "=", q, "x", q>>,
      <<"0">>,
      <<"0", "=", "=", q, "a", "=", "=", "x", q>>,
      <<"0", "=", "=", q, "a", q, "=", "=", "x">>,
      <<"a", "=", "=", q, "x", q>> }

\* what the backend may answer to a batch: the batch unchanged, or any
\* "//"-joined string of at most MaxTokens tokens
BackendTexts(sent) ==
    {sent} \cup
    { Join(ts, BatchSep) : ts \in UNION { [1..n -> Tokens] : n \in 1..MaxTokens } }

(***************************************************************************)
(* State.                                                                  *)
(***************************************************************************)
VARIABLES
    defaultLanguage,   \* this.db.get('defaultLanguage'): persisted
    argv,              \* the command line of the running process
    pc,                \* position of the running process
    error,             \* what the process threw: "none" while it has not
    backendCalls,      \* calls of translate(text, {to}) by this process
    fileReads,         \* paths given to readFile by this process
    fileWrites,        \* [path, content] given to writeFile by this process
    path,              \* translateFile: the selected path
    data,              \* translateFile: the parsed document
    messages,          \* translateFile: the leaf records
    message,           \* translateFile: the batch sent
    text,              \* translateFile: the backend's answer
    newMessages,       \* translateFile: the split answer
    objectMessages,    \* translateFile: objectMessages.objectData
    k,                 \* translateFile: position of the rebuild loop
    sets               \* translateFile: calls of objectMessages.set

locals == <<path, data, messages, message, text, newMessages, objectMessages, k, sets>>
effects == <<backendCalls, fileReads, fileWrites>>
vars == <<defaultLanguage, argv, pc, error, effects, locals>>

InitLocals ==
    /\ path = Undefined
    /\ data = Undefined
    /\ messages = <<>>
    /\ message = <<>>
    /\ text = Undefined
    /\ newMessages = <<>>
    /\ objectMessages = Obj(<<>>)
    /\ k = 0
    /\ sets = <<>>

Init ==
    /\ defaultLanguage = Undefined
    /\ argv = NoArgv
    /\ pc = "Idle"
    /\ error = "none"
    /\ backendCalls = <<>>
    /\ fileReads = <<>>
    /\ fileWrites = <<>>
    /\ InitLocals

\* the process ends by throwing
Throw(kind) ==
    /\ pc' = "Failed"
    /\ error' = kind

\* await translate(sent, { to }): the call is made, the answer is awaited
CallBackend(sent, to) ==
    backendCalls' = Append(backendCalls, [text |-> sent, to |-> to])

(***************************************************************************)
(* The root command.                                                       *)
(***************************************************************************)
\* Object.keys(options).length
OptionKeys(a) ==
    (IF a.to.type # "undefined" THEN 1 ELSE 0) + (IF a.languages THEN 1 ELSE 0)

\* commander parses the options, verifyString throws on the value of --to:
\* no action runs
ParseError(a) ==
    /\ pc = "Idle"
    /\ a.to.type # "undefined"
    /\ ~verifyString(a.to)
    /\ argv' = a
    /\ Throw("InvalidArgumentError")
    /\ UNCHANGED <<defaultLanguage, effects, locals>>

Parsed(a) == a.to.type # "undefined" => verifyString(a.to)

\* Translate.run up to its return, throw or await of Translate.translate
run(a) ==
    /\ pc = "Idle"
    /\ a.command = "run"
    /\ Parsed(a)
    /\ argv' = a
    /\ IF a.languages
       THEN /\ pc' = "Done"
            /\ UNCHANGED <<error, backendCalls>>
       ELSE IF a.message = <<>> /\ OptionKeys(a) = 0
            THEN Throw("InvalidArgumentError") /\ UNCHANGED backendCalls
       ELSE IF a.message = <<>> /\ Truthy(a.to)
            THEN Throw("InvalidArgumentError") /\ UNCHANGED backendCalls
       ELSE /\ CallBackend(Join(a.message, <<" ">>),
                           Coalesce(Coalesce(a.to, defaultLanguage), Str(FallbackLanguage)))
            /\ pc' = "RunAwaitingBackend"
            /\ UNCHANGED error
    /\ UNCHANGED <<defaultLanguage, fileReads, fileWrites, locals>>

\* Translate.translate: the backend answers and the translation is printed
translateResolve ==
    /\ pc = "RunAwaitingBackend"
    /\ pc' = "Done"
    /\ UNCHANGED <<defaultLanguage, argv, error, effects, locals>>

\* Translate.translate: the backend fails, catch rethrows
translateReject ==
    /\ pc = "RunAwaitingBackend"
    /\ Throw("Error")
    /\ UNCHANGED <<defaultLanguage, argv, effects, locals>>

(***************************************************************************)
(* The sub-commands to and web.                                            *)
(***************************************************************************)
\* Translate.to up to its await of the prompt
toPrompt(a) ==
    /\ pc = "Idle"
    /\ a.command = "to"
    /\ Parsed(a)
    /\ argv' = a
    /\ pc' = "PromptLanguage"
    /\ UNCHANGED <<defaultLanguage, error, effects, locals>>

\* Translate.to after the prompt: the chosen choice is stored
to ==
    /\ pc = "PromptLanguage"
    /\ \E i \in 1..Len(languages) :
          defaultLanguage' = Str(languages[i])
    /\ pc' = "Done"
    /\ UNCHANGED <<argv, error, effects, locals>>

\* the action of `web`: opens the site
web(a) ==
    /\ pc = "Idle"
    /\ a.command = "web"
    /\ Parsed(a)
    /\ argv' = a
    /\ pc' = "Done"
    /\ UNCHANGED <<defaultLanguage, error, effects, locals>>


(***************************************************************************)
(* The sub-command file: Translate.translateFile.                          *)
(***************************************************************************)
\* the language of a file translation: this.db.get('defaultLanguage') ?? 'en'
FileLanguage == Coalesce(defaultLanguage, Str(FallbackLanguage))

\* translateFile up to its await of the path prompt
translateFilePrompt(a) ==
    /\ pc = "Idle"
    /\ a.command = "file"
    /\ Parsed(a)
    /\ argv' = a
    /\ pc' = "PromptPath"
    /\ UNCHANGED <<defaultLanguage, error, effects, locals>>

\* the prompt answers with a path the filter keeps; isFile and the switch
selectPath ==
    /\ pc = "PromptPath"
    /\ \E p \in CandidatePaths, isFile \in BOOLEAN :
          /\ ~excludeFilter(p)
          /\ path' = Str(p)
          /\ pc' = IF ~isFile THEN "Done"
                   ELSE IF ExtensionOf(p) = <<"j", "s", "o", "n">> THEN "ReadingJson"
                   ELSE IF ExtensionOf(p) = <<"t", "x", "t">> THEN "ReadingTxt"
                   ELSE "Done"
    /\ UNCHANGED <<defaultLanguage, argv, error, effects>>
    /\ UNCHANGED <<data, messages, message, text, newMessages, objectMessages, k, sets>>

\* case 'json': JSON.parse(await readFile(path)) returns the document
readJson ==
    /\ pc = "ReadingJson"
    /\ fileReads' = Append(fileReads, path.v)
    /\ \E d \in Docs : data' = d
    /\ pc' = "Extracting"
    /\ UNCHANGED <<defaultLanguage, argv, error, backendCalls, fileWrites>>
    /\ UNCHANGED <<path, messages, message, text, newMessages, objectMessages, k, sets>>

\* case 'json': readFile rejects or the content is no JSON
readJsonFail ==
    /\ pc = "ReadingJson"
    /\ fileReads' = Append(fileReads, path.v)
    /\ Throw("Error")
    /\ UNCHANGED <<defaultLanguage, argv, backendCalls, fileWrites, locals>>

\* await resolveMessages()
extract ==
    /\ pc = "Extracting"
    /\ messages' = resolveMessages(data)
    /\ pc' = "Encoding"
    /\ UNCHANGED <<defaultLanguage, argv, error, effects>>
    /\ UNCHANGED <<path, data, message, text, newMessages, objectMessages, k, sets>>

\* the batch is built and translate(message, ...) is called
encode ==
    /\ pc = "Encoding"
    /\ message' = EncodeBatch(messages)
    /\ CallBackend(EncodeBatch(messages), FileLanguage)
    /\ pc' = "AwaitingBackend"
    /\ UNCHANGED <<defaultLanguage, argv, error, fileReads, fileWrites>>
    /\ UNCHANGED <<path, data, messages, text, newMessages, objectMessages, k, sets>>

\* the backend answers with a text
backendResolve ==
    /\ pc = "AwaitingBackend"
    /\ \E t \in BackendTexts(message) : text' = Str(t)
    /\ pc' = "Decoding"
    /\ UNCHANGED <<defaultLanguage, argv, error, effects>>
    /\ UNCHANGED <<path, data, messages, message, newMessages, objectMessages, k, sets>>

\* a second call of the backend after a failure, while pc stays put
backendRejectRetry ==
    /\ pc = "AwaitingBackend"
    /\ IF Len(backendCalls) < 2
       THEN /\ CallBackend(message, FileLanguage)
            /\ UNCHANGED <<pc, error>>
       ELSE /\ Throw("Error")
            /\ UNCHANGED backendCalls
    /\ UNCHANGED <<defaultLanguage, argv, fileReads, fileWrites, locals>>

\* the backend fails: the catch rethrows
backendReject ==
    /\ pc = "AwaitingBackend"
    /\ Throw("Error")
    /\ UNCHANGED <<defaultLanguage, argv, effects, locals>>

\* text.split('//').map(message => message.split('==')), new ObjectManager({})
decode ==
    /\ pc = "Decoding"
    /\ newMessages' = DecodeBatch(text.v)
    /\ objectMessages' = Obj(<<>>)
    /\ k' = 1
    /\ pc' = "Rebuilding"
    /\ UNCHANGED <<defaultLanguage, argv, error, effects>>
    /\ UNCHANGED <<path, data, messages, message, text, sets>>

\* one iteration that skips a token it cannot use instead of throwing
rebuildStepSkip ==
    /\ pc = "Rebuilding"
    /\ k <= Len(newMessages)
    /\ LET index  == PartAt(newMessages[k], 1)
           value  == PartAt(newMessages[k], 2)
           record == LookupMessage(messages, index)
           parsed == JSONParse(value)
       IN  IF record = Undefined \/ ~parsed.ok
           THEN UNCHANGED <<objectMessages, sets>>
           ELSE /\ objectMessages' = ObjectSet(objectMessages, record.path, parsed.val)
                /\ sets' = Append(sets, [path |-> record.path, value |-> parsed.val])
    /\ k' = k + 1
    /\ UNCHANGED <<pc, error>>
    /\ UNCHANGED <<defaultLanguage, argv, effects>>
    /\ UNCHANGED <<path, data, messages, message, text, newMessages>>

\* one iteration of
\* for (let [index, value] of newMessages)
\*     objectMessages.set(messages[index].path, JSON.parse(value));
\* messages[index].path throws a TypeError when messages[index] is undefined,
\* JSON.parse throws a SyntaxError; the catch rethrows either
rebuildStep ==
    /\ pc = "Rebuilding"
    /\ k <= Len(newMessages)
    /\ LET index  == PartAt(newMessages[k], 1)
           value  == PartAt(newMessages[k], 2)
           record == LookupMessage(messages, index)
           parsed == JSONParse(value)
       IN  IF record = Undefined \/ ~parsed.ok
           THEN /\ Throw("Error")
                /\ UNCHANGED <<objectMessages, sets, k>>
           ELSE /\ objectMessages' = ObjectSet(objectMessages, record.path, parsed.val)
                /\ sets' = Append(sets, [path |-> record.path, value |-> parsed.val])
                /\ k' = k + 1
                /\ UNCHANGED <<pc, error>>
    /\ UNCHANGED <<defaultLanguage, argv, effects>>
    /\ UNCHANGED <<path, data, messages, message, text, newMessages>>

\* after the loop: await writeFile(pathTranslated, JSON.stringify(...))
writeJson ==
    /\ pc = "Rebuilding"
    /\ k > Len(newMessages)
    /\ fileWrites' = Append(fileWrites,
          [path    |-> pathTranslated(path.v, <<"j", "s", "o", "n">>),
           content |-> objectMessages])
    /\ pc' = "Done"
    /\ UNCHANGED <<defaultLanguage, argv, error, backendCalls, fileReads, locals>>

\* case 'txt': readFile returns the content, translate(content, ...) is called
readTxt ==
    /\ pc = "ReadingTxt"
    /\ fileReads' = Append(fileReads, path.v)
    /\ \E content \in TxtContents :
          /\ message' = content
          /\ CallBackend(content, FileLanguage)
    /\ pc' = "TxtAwaitingBackend"
    /\ UNCHANGED <<defaultLanguage, argv, error, fileWrites>>
    /\ UNCHANGED <<path, data, messages, text, newMessages, objectMessages, k, sets>>

\* case 'txt': readFile rejects
readTxtFail ==
    /\ pc = "ReadingTxt"
    /\ fileReads' = Append(fileReads, path.v)
    /\ Throw("Error")
    /\ UNCHANGED <<defaultLanguage, argv, backendCalls, fileWrites, locals>>

\* case 'txt': the backend answers, the text is written
txtResolve ==
    /\ pc = "TxtAwaitingBackend"
    /\ \E t \in TxtContents :
          /\ text' = Str(t)
          /\ fileWrites' = Append(fileWrites,
                [path    |-> pathTranslated(path.v, <<"t", "x", "t">>),
                 content |-> Str(t)])
    /\ pc' = "Done"
    /\ UNCHANGED <<defaultLanguage, argv, error, backendCalls, fileReads>>
    /\ UNCHANGED <<path, data, messages, message, newMessages, objectMessages, k, sets>>

\* case 'txt': the backend fails
txtReject ==
    /\ pc = "TxtAwaitingBackend"
    /\ Throw("Error")
    /\ UNCHANGED <<defaultLanguage, argv, effects, locals>>

(***************************************************************************)
(* The process ends; the next command line starts a new process, which     *)
(* shares nothing with it but the store.                                   *)
(***************************************************************************)
exit ==
    /\ pc \in {"Done", "Failed"}
    /\ pc' = "Idle"
    /\ argv' = NoArgv
    /\ error' = "none"
    /\ backendCalls' = <<>>
    /\ fileReads' = <<>>
    /\ fileWrites' = <<>>
    /\ path' = Undefined
    /\ data' = Undefined
    /\ messages' = <<>>
    /\ message' = <<>>
    /\ text' = Undefined
    /\ newMessages' = <<>>
    /\ objectMessages' = Obj(<<>>)
    /\ k' = 0
    /\ sets' = <<>>
    /\ UNCHANGED defaultLanguage

start ==
    \E a \in Argv :
        /\ WellFormedArgv(a)
        /\ \/ ParseError(a)
           \/ run(a)
           \/ toPrompt(a)
           \/ web(a)
           \/ translateFilePrompt(a)

Next ==
    \/ start
    \/ translateResolve
    \/ translateReject
    \/ to
    \/ selectPath
    \/ readJson
    \/ readJsonFail
    \/ extract
    \/ encode
    \/ backendResolve
    \/ backendReject
    \/ decode
    \/ rebuildStep
    \/ writeJson
    \/ readTxt
    \/ readTxtFail
    \/ txtResolve
    \/ txtReject
    \/ exit

Spec == Init /\ [][Next]_vars


(***************************************************************************)
(* Vocabulary of the properties.                                           *)
(***************************************************************************)
Json == <<"j", "s", "o", "n">>
Txt  == <<"t", "x", "t">>

\* the running process is in (or has ended) the json case of translateFile
InJsonCase ==
    /\ argv.command = "file"
    /\ path.type = "string"
    /\ ExtensionOf(path.v) = Json
    /\ (pc = "ReadingJson" \/ fileReads # <<>>)

\* the running process is in (or has ended) the txt case of translateFile
InTxtCase ==
    /\ argv.command = "file"
    /\ path.type = "string"
    /\ ExtensionOf(path.v) = Txt
    /\ (pc = "ReadingTxt" \/ fileReads # <<>>)

\* a language the catalog names, long or short
InCatalog(s) ==
    \/ \E i \in 1..Len(longName) : longName[i] = s
    \/ \E i \in 1..Len(shortName) : shortName[i] = s

\* a base-10 integer: an optional sign and digits
IsIntegerLiteral(s) ==
    LET d == IF s # <<>> /\ s[1] = "-" THEN Tail(s) ELSE s
    IN  d # <<>> /\ \A i \in 1..Len(d) : d[i] \in DigitChars

IntegerValue(s) ==
    IF s[1] = "-" THEN 0 - StrToNat(Tail(s)) ELSE StrToNat(s)

\* the index part of a split token is an integer outside 0..n-1
IndexOutOfRange(parts, n) ==
    /\ IsIntegerLiteral(parts[1])
    /\ (IntegerValue(parts[1]) < 0 \/ IntegerValue(parts[1]) >= n)

\* the rebuild loop can use token j: its index names a record and its
\* payload parses
TokenUsable(j) ==
    /\ LookupMessage(messages, PartAt(newMessages[j], 1)) # Undefined
    /\ JSONParse(PartAt(newMessages[j], 2)).ok

\* a token cut at its first "==" only
SplitFirst(token) ==
    LET i == IndexOf(token, IndexSep, 1)
    IN  IF i = 0 THEN <<token>>
        ELSE <<SubSeq(token, 1, i - 1), SubSeq(token, i + Len(IndexSep), Len(token))>>

\* a token as the batch format defines it: index, "==", JSON payload
TokenWellFormed(token) ==
    LET parts == SplitFirst(token)
    IN  /\ Len(parts) = 2
        /\ IsIntegerLiteral(parts[1])
        /\ JSONParse(Str(parts[2])).ok

\* every leaf of the document is a non-empty string or a non-empty array of
\* strings; mappings may nest
RECURSIVE AllLeavesTranslatable(_)
AllLeavesTranslatable(doc) ==
    \A i \in 1..Len(doc.v) :
        LET value == doc.v[i][2]
        IN  CASE value.type = "string" -> value.v # <<>>
              [] value.type = "array"  ->
                    /\ value.v # <<>>
                    /\ \A j \in 1..Len(value.v) : value.v[j].type = "string"
              [] value.type = "object" -> AllLeavesTranslatable(value)
              [] OTHER -> FALSE

\* the records the extraction is specified to return: one per non-empty
\* string or string array, path the "/"-joined chain of keys from the root
RECURSIVE ExpectedRecords(_, _)
ExpectedRecords(entries, chain) ==
    IF entries = <<>> THEN <<>>
    ELSE LET key   == entries[1][1]
             value == entries[1][2]
             here  ==
                IF value.type \in {"string", "array"} /\ value.v # <<>>
                THEN << [path |-> Join(Append(chain, key), <<"/">>), text |-> value] >>
                ELSE IF value.type = "object"
                     THEN ExpectedRecords(value.v, Append(chain, key))
                     ELSE <<>>
         IN  here \o ExpectedRecords(Tail(entries), chain)

\* the sibling of the input named <base>-translated.<ext>, base the file
\* name without its final extension
ExpectedOutputPath(p) ==
    LET segs == Split(p, <<"/">>)
        name == Last(segs)
        ext  == Last(Split(name, <<".">>))
        base == SubSeq(name, 1, Len(name) - Len(ext) - 1)
        dir  == Join(SubSeq(segs, 1, Len(segs) - 1), <<"/">>)
    IN  (IF Len(segs) > 1 THEN dir \o <<"/">> ELSE <<>>)
        \o base \o TranslatedSuffix \o ext

\* the stages of the structured-file operation
StageRank(p) ==
    CASE p \in {"Idle", "PromptPath", "ReadingJson"} -> 0
      [] p = "Extracting"      -> 1
      [] p = "Encoding"        -> 2
      [] p = "AwaitingBackend" -> 3
      [] p = "Decoding"        -> 4
      [] p = "Rebuilding"      -> 5
      [] p = "Done"            -> 6
      [] OTHER                 -> 7

(***************************************************************************)
(* C1.  Round trip under an identity backend: when the backend returns the *)
(* batch unchanged and every leaf of the document is a non-empty string or *)
(* string array, the operation does not fail, the decoded entries are as   *)
(* many as the extracted records, entry i carries the text of record i,    *)
(* and the document written equals the document read.                      *)
(***************************************************************************)
C1_RoundTrip ==
    (InJsonCase /\ text = Str(message) /\ data.type = "object"
       /\ AllLeavesTranslatable(data))
    => /\ pc # "Failed"
       /\ pc \in {"Rebuilding", "Done"} =>
             /\ Len(newMessages) = Len(messages)
             /\ \A i \in 1..Len(messages) :
                   /\ PartAt(newMessages[i], 1) = Str(NatToStr(i - 1))
                   /\ JSONParse(PartAt(newMessages[i], 2)).ok
                   /\ JSONParse(PartAt(newMessages[i], 2)).val = messages[i].text
       /\ pc = "Done" => (fileWrites # <<>> /\ fileWrites[1].content = data)

(***************************************************************************)
(* C2.  Target language: every call of the backend, by phrase translation  *)
(* or by a file translation, passes the value of --to when the command     *)
(* line gave one, else the stored defaultLanguage, else "en".              *)
(***************************************************************************)
C2_TargetLanguage ==
    \A i \in 1..Len(backendCalls) :
        backendCalls[i].to =
            IF argv.to.type = "string" THEN argv.to
            ELSE IF defaultLanguage.type = "string" THEN defaultLanguage
            ELSE Str(<<"e", "n">>)

(***************************************************************************)
(* C3.  Fail fast: a command line whose --to value is not in the catalog,  *)
(* or a root command with no message words and without --languages, ends   *)
(* with an argument error; the backend is not called, no file is read or   *)
(* written.                                                                *)
(***************************************************************************)
BadArguments(a) ==
    \/ a.to.type = "string" /\ ~InCatalog(a.to.v)
    \/ a.command = "run" /\ a.message = <<>> /\ ~a.languages

C3_FailFast ==
    BadArguments(argv) =>
        /\ pc = "Failed"
        /\ error = "InvalidArgumentError"
        /\ backendCalls = <<>>
        /\ fileReads = <<>>
        /\ fileWrites = <<>>

\* a message with a --to value the catalog does not name has been refused
C3_Witness ==
    /\ argv.command = "run"
    /\ argv.message # <<>>
    /\ argv.to = Str(<<"x", "x">>)
    /\ pc = "Failed"
    /\ backendCalls = <<>>

C5_AllOrNothing ==
    (InJsonCase /\ text.type = "string") =>
        LET tokens == Split(text.v, BatchSep)
            bad(j) == ~TokenWellFormed(tokens[j])
            inRange(j) == ~IndexOutOfRange(SplitFirst(tokens[j]), Len(messages))
        IN  /\ (\E j \in 1..Len(tokens) : bad(j)) =>
                  (pc # "Done" /\ fileWrites = <<>>)
            /\ (\A j \in 1..Len(tokens) : ~bad(j) /\ inRange(j)) => pc # "Failed"

(***************************************************************************)
(* C6.  Index range check: the rebuild loop never gets past a token whose  *)
(* index is an integer outside 0..n-1, n the number of extracted records   *)
(* (negative indices and n included): the operation fails there and writes *)
(* nothing; and every path the rebuild sets is the path of an extracted    *)
(* record.                                                                 *)
(***************************************************************************)
C6_IndexRange ==
    /\ \A j \in 1..Len(newMessages) :
          IndexOutOfRange(newMessages[j], Len(messages)) =>
              /\ k <= j
              /\ pc \in {"Rebuilding", "Failed"}
              /\ fileWrites = <<>>
    /\ \A i \in 1..Len(sets) :
          \E r \in 1..Len(messages) : messages[r].path = sets[i].path

\* the loop has set a value and then met the index n: the operation failed
C6_Witness ==
    /\ pc = "Failed"
    /\ k >= 2
    /\ k <= Len(newMessages)
    /\ messages # <<>>
    /\ newMessages[k][1] = NatToStr(Len(messages))
    /\ Len(sets) = k - 1
    /\ fileWrites = <<>>

(***************************************************************************)
(* C7.  Leaf extraction: the records are exactly those of the non-empty    *)
(* strings and string arrays of the document, in key order, nested leaves  *)
(* at the place of their key, each with the "/"-joined chain of its keys   *)
(* as path and the value as text; and the paths are pairwise distinct.     *)
(***************************************************************************)
C7_LeafExtraction ==
    (InJsonCase /\ pc \in {"Encoding", "AwaitingBackend", "Decoding", "Rebuilding", "Done"})
    => /\ messages = ExpectedRecords(data.v, <<>>)
       /\ \A i, j \in 1..Len(messages) :
             messages[i].path = messages[j].path => i = j

(***************************************************************************)
(* C8.  Output name: every write of a file translation goes to the sibling *)
(* of the input whose name is the input's name without its final extension *)
(* followed by "-translated" and that extension.                           *)
(***************************************************************************)
C8_OutputNaming ==
    \A i \in 1..Len(fileWrites) : fileWrites[i].path = ExpectedOutputPath(path.v)

(***************************************************************************)
(* C9.  Pipeline order of the structured-file operation: each step stays   *)
(* in its stage, moves to the next stage or fails; the backend is called   *)
(* only on leaving Encoding, with the batch of all extracted leaves, at    *)
(* most once, and exactly once when the operation is Done; a failed        *)
(* operation calls no backend, sets no value and writes no file.           *)
(***************************************************************************)
C9_State ==
    InJsonCase =>
        /\ Len(backendCalls) <= 1
        /\ StageRank(pc) <= 2 => backendCalls = <<>>
        /\ (StageRank(pc) \in 3..6) => Len(backendCalls) = 1
        /\ pc = "Done" => Len(fileWrites) = 1
        /\ pc # "Done" => fileWrites = <<>>

C9_Step ==
    /\ (InJsonCase /\ pc \notin {"Done", "Failed"}) =>
          /\ \/ pc' = pc
             \/ StageRank(pc') = StageRank(pc) + 1
             \/ pc' = "Failed"
          /\ backendCalls' # backendCalls =>
                /\ pc = "Encoding"
                /\ pc' = "AwaitingBackend"
                /\ backendCalls' =
                      Append(backendCalls,
                             [text |-> EncodeBatch(resolveMessages(data)),
                              to   |-> backendCalls'[Len(backendCalls')].to])
          /\ sets' # sets => (pc = "Rebuilding" /\ pc' = "Rebuilding")
          /\ fileWrites' # fileWrites => (pc = "Rebuilding" /\ pc' = "Done")
    /\ (InJsonCase /\ pc = "Failed") =>
          \/ pc' = "Failed" /\ UNCHANGED <<backendCalls, fileWrites, sets, objectMessages>>
          \/ pc' = "Idle" /\ argv' = NoArgv

C9_PipelineOrder == [][C9_State /\ C9_Step]_vars

\* a structured-file operation has gone through every stage
C9_Witness ==
    /\ InJsonCase
    /\ pc = "Done"
    /\ Len(messages) >= 2
    /\ Len(sets) >= 2
    /\ Len(backendCalls) = 1
    /\ Len(fileWrites) = 1

(***************************************************************************)
(* C10.  The stored defaultLanguage is absent or a long or short name of   *)
(* the catalog, a backend call made without --to receives such a name or   *)
(* "en", and only the command `to` changes the stored value.               *)
(***************************************************************************)
C10_State ==
    /\ defaultLanguage.type = "undefined"
       \/ (defaultLanguage.type = "string" /\ InCatalog(defaultLanguage.v))
    /\ argv.to.type = "undefined" =>
          \A i \in 1..Len(backendCalls) :
              \/ InCatalog(backendCalls[i].to.v)
              \/ backendCalls[i].to = Str(<<"e", "n">>)

C10_DefaultLanguageValid ==
    [][/\ C10_State
       /\ defaultLanguage' # defaultLanguage => argv.command = "to"]_vars

=============================================================================
